---- MODULE Spec2Model ----
(***************************************************************************)
(* State-machine model of the streaming scrape routes of yc-scraper-app:   *)
(*   src/src/app/api/scrape/route.ts      POST, scrapeCompanies   ("flat") *)
(*   src/src/app/api/scrape-qa/route.ts   POST, scrapeCompanyQAs  ("qa")   *)
(* One request is followed from POST to the end of its stream.  Every      *)
(* `await` of the scrape function is one action: the awaited page-session  *)
(* primitive either returns or raises; the synchronous code that follows   *)
(* it up to the next `await` belongs to the same action.                   *)
(*                                                                         *)
(* Strings are sequences of tokens (URLs) or of characters (page texts),   *)
(* so that includes/endsWith/trim/join are computed, not assumed.          *)
(***************************************************************************)
EXTENDS Integers, Sequences, FiniteSets, TLC

\* ------------------------------------------------------------------ bounds
\* Largest number of anchors on the listing page at the final extraction.
MaxHrefs == 2
\* Largest number of company anchors a page shows while it is being scrolled.
MaxCount == 21
\* Largest number of anchors handed to the link extraction on its own.
MaxAnchors == 4

\* ------------------------------------------------- program constants
maxScrollAttempts == 20

\* ------------------------------------------------------ string helpers
\* String.prototype.includes on token sequences: p occurs contiguously in s.
Includes(s, p) ==
  \E i \in 0..(Len(s) - Len(p)) : SubSeq(s, i + 1, i + Len(p)) = p

\* String.prototype.endsWith on token sequences.
EndsWith(s, p) ==
  /\ Len(s) >= Len(p)
  /\ SubSeq(s, Len(s) - Len(p) + 1, Len(s)) = p

\* Array.prototype.indexOf (1-based): the first position holding x.
IndexOf(arr, x) ==
  CHOOSE i \in 1..Len(arr) : arr[i] = x /\ \A j \in 1..(i - 1) : arr[j] # x

\* ------------------------------------------------------ listing hrefs
\* An href is its token sequence: "https://www." "ycombinator.com"
\* "/companies" "/" "acme"  stands for
\* https://www.ycombinator.com/companies/acme
Base == <<"https://www.", "ycombinator.com", "/companies">>

HrefRoot         == Base
HrefRootSlash    == Base \o <<"/">>
HrefFiltered     == Base \o <<"?", "batch=W21">>
HrefFounders     == Base \o <<"/", "founders">>
HrefFoundersClub == Base \o <<"/", "founders", "club">>
HrefIndustry     == Base \o <<"/", "industry", "/", "B2B">>
HrefLocation     == Base \o <<"/", "location", "/", "Paris">>
HrefBatch        == Base \o <<"/", "batch", "/", "W21">>
HrefFragment     == Base \o <<"/", "acme", "#", "team">>
HrefJobs         == Base \o <<"/", "acme", "/", "jobs">>
HrefOtherSite    == <<"https://www.", "example.com", "/companies", "/", "acme">>
HrefNested       == Base \o <<"/", "acme", "/companies">>
HrefAcme         == Base \o <<"/", "acme">>
HrefBeta         == Base \o <<"/", "beta">>
HrefCorp         == Base \o <<"/", "corp">>

\* The href predicate of the final extraction pass (and of the count pass).
IsCompanyHref_NoJobs(href) ==
  /\ href # <<>>
  /\ Includes(href, <<"ycombinator.com", "/companies", "/">>)
  /\ ~EndsWith(href, <<"/companies">>)
  /\ ~EndsWith(href, <<"/companies", "/">>)
  /\ ~Includes(href, <<"/companies", "?">>)
  /\ ~Includes(href, <<"/companies", "/", "founders">>)
  /\ ~Includes(href, <<"/companies", "/", "industry", "/">>)
  /\ ~Includes(href, <<"/companies", "/", "location", "/">>)
  /\ ~Includes(href, <<"/companies", "/", "batch", "/">>)
  /\ ~Includes(href, <<"#">>)

IsCompanyHref(href) ==
  /\ href # <<>>
  /\ Includes(href, <<"ycombinator.com", "/companies", "/">>)
  /\ ~EndsWith(href, <<"/companies">>)
  /\ ~EndsWith(href, <<"/companies", "/">>)
  /\ ~Includes(href, <<"/companies", "?">>)
  /\ ~Includes(href, <<"/companies", "/", "founders">>)
  /\ ~Includes(href, <<"/companies", "/", "industry", "/">>)
  /\ ~Includes(href, <<"/companies", "/", "location", "/">>)
  /\ ~Includes(href, <<"/companies", "/", "batch", "/">>)
  /\ ~Includes(href, <<"#">>)
  /\ ~Includes(href, <<"/", "jobs">>)

\* .filter((url, index, array) => array.indexOf(url) === index)
RECURSIVE KeepFirst(_, _)
KeepFirst(arr, i) ==
  IF i > Len(arr) THEN <<>>
  ELSE (IF IndexOf(arr, arr[i]) = i THEN <<arr[i]>> ELSE <<>>)
       \o KeepFirst(arr, i + 1)

\* The page.evaluate callback of the final extraction pass: hrefs are the
\* .href values of the anchors matched by a[href*="/companies/"].
ExtractCompanyLinks(hrefs) == KeepFirst(SelectSeq(hrefs, IsCompanyHref), 1)

\* The page.evaluate callback of the count pass: the same pipeline, .length.
CountCompanyLinks(hrefs) == Len(KeepFirst(SelectSeq(hrefs, IsCompanyHref), 1))

\* ------------------------------------------------------- page texts
\* A text is a sequence of characters; " " is the only whitespace used.
\* String.prototype.trim.
RECURSIVE TrimLeft(_)
TrimLeft(s) ==
  IF s # <<>> /\ Head(s) = " " THEN TrimLeft(Tail(s)) ELSE s

RECURSIVE TrimRight(_)
TrimRight(s) ==
  IF s # <<>> /\ s[Len(s)] = " " THEN TrimRight(SubSeq(s, 1, Len(s) - 1)) ELSE s

Trim(s) == TrimRight(TrimLeft(s))

\* What document.querySelector returns: null, or an element with its text.
NoElement     == [found |-> FALSE, textContent |-> <<>>]
Element(text) == [found |-> TRUE, textContent |-> text]

\* element?.textContent?.trim() || ''
TextOf(el) == IF el.found THEN Trim(el.textContent) ELSE <<>>

\* Sample texts.
LongText  == [i \in 1..51 |-> "x"]
FiftyText == [i \in 1..50 |-> "y"]

\* -------------------------------------------------- flat-mode extraction
\* The fallback loop of the flat callback with the threshold met at 50.
RECURSIVE FallbackDescription_AtLeastFifty(_, _, _, _)
FallbackDescription_AtLeastFifty(fallbacks, k, name, title) ==
  IF k > Len(fallbacks) THEN <<>>
  ELSE LET text == TextOf(fallbacks[k])
       IN  IF Len(text) >= 50 /\ text # name /\ text # title
           THEN text
           ELSE FallbackDescription_AtLeastFifty(fallbacks, k + 1, name, title)

\* for (const selector of fallbackSelectors) { ... break; }
RECURSIVE FallbackDescription(_, _, _, _)
FallbackDescription(fallbacks, k, name, title) ==
  IF k > Len(fallbacks) THEN <<>>
  ELSE LET text == TextOf(fallbacks[k])
       IN  IF Len(text) > 50 /\ text # name /\ text # title
           THEN text
           ELSE FallbackDescription(fallbacks, k + 1, name, title)

\* The page.evaluate callback of the flat route: { name, title, description }.
ExtractCompanyData(dom) ==
  LET name    == TextOf(dom.nameElement)
      title   == TextOf(dom.titleElement)
      primary == TextOf(dom.descriptionElement)
  IN  [name        |-> name,
       title       |-> title,
       description |-> IF primary # <<>> THEN primary
                       ELSE FallbackDescription(dom.fallbacks, 1, name, title)]

\* if (companyData.name)
HasName_Always(companyData) == TRUE

HasName(companyData) == companyData.name # <<>>

\* Profile pages the flat route may meet.
FlatPage(n, t, d, fb) ==
  [nameElement |-> n, titleElement |-> t, descriptionElement |-> d, fallbacks |-> fb]

NoFallbacks == <<NoElement, NoElement, NoElement>>

FlatPages ==
  { FlatPage(Element(<<" ", "A", " ">>), Element(<<"T">>), Element(<<"D">>), NoFallbacks),
    FlatPage(Element(<<"B">>), NoElement, NoElement,
             <<NoElement, Element(FiftyText), Element(LongText)>>),
    FlatPage(Element(<<" ">>), Element(<<"T">>), Element(LongText), NoFallbacks) }

\* ---------------------------------------------------- QA-mode extraction
\* for (const selector of nameSelectors) { ... break; }
RECURSIVE FallbackName(_, _)
FallbackName(candidates, k) ==
  IF k > Len(candidates) THEN <<>>
  ELSE IF TextOf(candidates[k]) # <<>> THEN TextOf(candidates[k])
       ELSE FallbackName(candidates, k + 1)

\* Array.prototype.join('\n\n')
RECURSIVE JoinParagraphs(_)
JoinParagraphs(texts) ==
  IF texts = <<>> THEN <<>>
  ELSE IF Len(texts) = 1 THEN texts[1]
       ELSE texts[1] \o <<"\n", "\n">> \o JoinParagraphs(Tail(texts))

\* The trimmed texts of the paragraphs, empty ones dropped.
RECURSIVE ParagraphTexts(_)
ParagraphTexts(paragraphs) ==
  IF paragraphs = <<>> THEN <<>>
  ELSE (IF Trim(Head(paragraphs)) # <<>> THEN <<Trim(Head(paragraphs))>> ELSE <<>>)
       \o ParagraphTexts(Tail(paragraphs))

\* The answer of one question block, falling back to the text of the
\* container whenever the paragraphs give nothing.
AnswerOf_TextWhenEmpty(answerElement) ==
  IF ~answerElement.found THEN <<>>
  ELSE IF JoinParagraphs(ParagraphTexts(answerElement.paragraphs)) # <<>>
       THEN JoinParagraphs(ParagraphTexts(answerElement.paragraphs))
       ELSE Trim(answerElement.textContent)

\* The answer of one question block.
AnswerOf(answerElement) ==
  IF ~answerElement.found THEN <<>>
  ELSE IF Len(answerElement.paragraphs) > 0
       THEN JoinParagraphs(ParagraphTexts(answerElement.paragraphs))
       ELSE Trim(answerElement.textContent)

\* for (const qaElement of qaElements) { ... qaList.push({ question, answer }) }
RECURSIVE QAListOf(_)
QAListOf(qaElements) ==
  IF qaElements = <<>> THEN <<>>
  ELSE LET qaElement == Head(qaElements)
           question  == TextOf(qaElement.questionElement)
           answer    == AnswerOf(qaElement.answerElement)
       IN  (IF qaElement.questionElement.found /\ question # <<>> /\ answer # <<>>
            THEN <<[question |-> question, answer |-> answer]>>
            ELSE <<>>)
           \o QAListOf(Tail(qaElements))

\* The page.evaluate callback of the QA route: { name, qaList }.
ExtractCompanyQAData(dom) ==
  LET primary == TextOf(dom.h1Element)
  IN  [name   |-> IF primary # <<>> THEN primary
                  ELSE FallbackName(dom.nameCandidates, 1),
       qaList |-> QAListOf(dom.qaElements)]

\* if (companyQAData.name && companyQAData.qaList.length > 0)
HasQA(companyQAData) ==
  companyQAData.name # <<>> /\ Len(companyQAData.qaList) > 0

\* Profile pages the QA route may meet.
NoAnswer == [found |-> FALSE, paragraphs |-> <<>>, textContent |-> <<>>]
AnswerParagraphs(ps) == [found |-> TRUE, paragraphs |-> ps, textContent |-> <<>>]
AnswerText(text) == [found |-> TRUE, paragraphs |-> <<>>, textContent |-> text]
QABlock(q, a) == [questionElement |-> q, answerElement |-> a]
QAPage(h1, cands, blocks) ==
  [h1Element |-> h1, nameCandidates |-> cands, qaElements |-> blocks]

NoCandidates == <<NoElement, NoElement, NoElement, NoElement, NoElement>>

QAPages ==
  { QAPage(Element(<<" ">>), <<NoElement, Element(<<"B">>), NoElement, NoElement, NoElement>>,
           <<QABlock(Element(<<" ">>), AnswerText(<<"z">>)),
             QABlock(Element(<<"Q">>), AnswerParagraphs(<<<<" ", "x">>, <<" ">>, <<"y">>>>))>>),
    QAPage(NoElement, NoCandidates,
           <<QABlock(Element(<<"Q">>), AnswerText(<<"z", " ">>))>>),
    QAPage(Element(<<"A">>), NoCandidates,
           <<QABlock(Element(<<"Q">>), AnswerParagraphs(<<<<" ">>>>)),
             QABlock(NoElement, AnswerText(<<"z">>))>>),
    QAPage(NoElement, NoCandidates, <<>>) }

\* ------------------------------------------------------------- events
\* The JSON objects handed to controller.enqueue.
InitialMsg(links) ==
  [type |-> "progress", total |-> Len(links), current |-> 0]

\* current: index in place of current: index + 1.
ProgressMsg_ZeroBased(i, links) ==
  [type |-> "progress", total |-> Len(links), current |-> i - 1, currentUrl |-> links[i]]

ProgressMsg(i, links) ==
  [type |-> "progress", total |-> Len(links), current |-> i, currentUrl |-> links[i]]

CompanyMsg(company) == [type |-> "company", data |-> company]

\* The company_error of the classification branch.
ExtractErrorMsg(companyUrl) ==
  [type |-> "company_error", message |-> "Failed to extract data", url |-> companyUrl]

\* The company_error of the per-item catch handler.
ScrapeErrorMsg(companyUrl) ==
  [type |-> "company_error", message |-> "Error scraping company", url |-> companyUrl]

\* A summary that counts every discovered link as scraped.
CompletionMsg_AllFound(scraped, links) ==
  [type |-> "complete", totalScraped |-> Len(links), totalFound |-> Len(links)]

CompletionMsg(scraped, links) ==
  [type |-> "complete", totalScraped |-> Len(scraped), totalFound |-> Len(links)]

NoLinksMsg == [type |-> "error", message |-> "No company links found"]

FatalMsg == [type |-> "error", message |-> "Failed to scrape companies"]

\* ----------------------------------------------------------- requests
\* The value of `url` after `const { url } = await request.json()`.
UrlUndefined  == [t |-> "undefined", s |-> <<>>, n |-> 0]
UrlString(s)  == [t |-> "string", s |-> s, n |-> 0]
UrlNumber(n)  == [t |-> "number", s |-> <<>>, n |-> n]

NoRequest      == [body |-> "none", url |-> UrlUndefined]
BadJsonRequest == [body |-> "invalid", url |-> UrlUndefined]
JsonRequest(u) == [body |-> "json", url |-> u]

ListingUrl == Base \o <<"?", "batch=W21">>
OtherUrl   == <<"https://www.", "example.com", "/", "list">>

Requests ==
  { BadJsonRequest,
    JsonRequest(UrlUndefined),
    JsonRequest(UrlString(<<>>)),
    JsonRequest(UrlNumber(0)),
    JsonRequest(UrlNumber(5)),
    JsonRequest(UrlString(OtherUrl)),
    JsonRequest(UrlString(ListingUrl)) }

Routes == {"flat", "qa"}

\* !url
IsFalsy(url) ==
  \/ url.t = "undefined"
  \/ url.t = "string" /\ url.s = <<>>
  \/ url.t = "number" /\ url.n = 0

\* url.includes('ycombinator.com/companies')
IsYCUrl_Any(url) == TRUE

IsYCUrl(url) == Includes(url.s, <<"ycombinator.com", "/companies">>)

\* details is "" where the body of the response has no details member.
NoResponse          == [status |-> 0, error |-> "", details |-> "", stream |-> FALSE]
ErrorResponse(c, e) == [status |-> c, error |-> e, details |-> "", stream |-> FALSE]
StreamResponse      == [status |-> 200, error |-> "", details |-> "", stream |-> TRUE]

\* The response of the catch of POST: the message of the error it caught.
ParseErrorResponse(message) ==
  [status |-> 500, error |-> "Failed to parse request", details |-> message, stream |-> FALSE]

\* The response POST returns, with the substring test applied to whatever
\* the url is.
Respond_NoTypeError(req) ==
  IF req.body # "json" THEN ParseErrorResponse("Unexpected end of JSON input")
  ELSE IF IsFalsy(req.url) THEN ErrorResponse(400, "URL is required")
  ELSE IF ~IsYCUrl(req.url)
       THEN ErrorResponse(400, "Please provide a valid Y Combinator companies URL")
  ELSE StreamResponse

\* The response POST returns; a stream is created only for StreamResponse.
\* request.json() throws on a body that is not JSON, and url.includes is not
\* a function on a number.
Respond(req) ==
  IF req.body # "json" THEN ParseErrorResponse("Unexpected end of JSON input")
  ELSE IF IsFalsy(req.url) THEN ErrorResponse(400, "URL is required")
  ELSE IF req.url.t # "string" THEN ParseErrorResponse("url.includes is not a function")
  ELSE IF ~IsYCUrl(req.url)
       THEN ErrorResponse(400, "Please provide a valid Y Combinator companies URL")
  ELSE StreamResponse

\* -------------------------------------------------------------- pages
\* Listing pages at the final extraction pass: up to MaxHrefs anchors.
FinalHrefPool == {HrefAcme, HrefBeta, HrefCorp, HrefJobs}

RECURSIVE SeqsUpTo(_, _)
SeqsUpTo(S, n) ==
  IF n = 0 THEN {<<>>}
  ELSE LET shorter == SeqsUpTo(S, n - 1)
       IN  shorter \cup {Append(q, x) : q \in {r \in shorter : Len(r) = n - 1}, x \in S}

ListingPages == SeqsUpTo(FinalHrefPool, MaxHrefs)

\* Listing pages while scrolling: n distinct company anchors, n <= MaxCount.
GrownPage(n) == [i \in 1..n |-> Base \o <<"/", ToString(i)>>]

ScrollPages == {GrownPage(n) : n \in 0..MaxCount}

\* -------------------------------------------------------------- state
VARIABLES
  pc,                    \* where the request is: the await it is suspended at
  route,                 \* "flat" (scrape) or "qa" (scrape-qa)
  request,               \* the request POST received
  response,              \* the response POST returned
  streamState,           \* "none", "readable", "cancelled", "closed", "errored"
  controllerCall,        \* what the stream's start wrapper called: close / error
  stream,                \* the events the stream accepted
  emitted,               \* the events handed to controller.enqueue
  browser,               \* "none", "open", "closed"
  closeCalls,            \* how many times browser.close() was invoked
  previousCompanyCount,
  currentCompanyCount,
  scrollAttempts,
  companyLinks,
  index,                 \* 1-based position in companyLinks (index + 1)
  companies,
  extracted,             \* <<i, data>>: what page.evaluate returned for item i
  raised,                \* <<i, step>>: the step that raised, in item i's iteration
                         \* (i >= 1) or outside the item loop (i = 0)
  hrefsIn,               \* link extraction on its own: the hrefs it is given
  linksOut,              \* link extraction on its own: what it returned
  linksPc,               \* link extraction on its own: "ready" or "done"
  countsIn,              \* scroll loop on its own: the count each pass will return
  domIn,                 \* page.evaluate on its own: the profile page it runs in
  dataOut,               \* page.evaluate on its own: what it returned
  evalPc,                \* page.evaluate on its own: "ready" or "done"
  clientPc,              \* handleScrape: the await it is suspended at
  pageUrl,               \* page state: url
  sent,                  \* handleScrape: the events the server enqueued on the response
  wire,                  \* handleScrape: the part of the body reader.read() has not returned
  midLine,               \* handleScrape: some read ended in the middle of a line
  isLoading,             \* page state: isLoading
  clientCompanies,       \* page state: companies
  clientError,           \* page state: error
  clientProgress,        \* page state: progress
  other                  \* two requests: the state of the request that is suspended

reqVars    == <<route, request, response>>
evalVars   == <<domIn, dataOut, evalPc>>
clientVars == <<clientPc, pageUrl, sent, wire, midLine, isLoading, clientCompanies, clientError,
                clientProgress>>
linkVars   == <<hrefsIn, linksOut, linksPc, countsIn, evalVars, clientVars>>
sessVars   == <<browser, closeCalls>>
scrollVars == <<previousCompanyCount, currentCompanyCount, scrollAttempts>>
outVars    == <<stream, emitted, raised>>
peerVars   == <<other>>
vars == <<pc, reqVars, streamState, controllerCall, outVars, sessVars, scrollVars,
          companyLinks, index, companies, extracted, linkVars, peerVars>>

\* Everything one request owns: its position, its response and stream, its
\* browser and the locals of its scrape function.
ReqState ==
  [pc |-> pc, route |-> route, request |-> request, response |-> response,
   streamState |-> streamState, controllerCall |-> controllerCall,
   stream |-> stream, emitted |-> emitted, raised |-> raised,
   browser |-> browser, closeCalls |-> closeCalls,
   previousCompanyCount |-> previousCompanyCount,
   currentCompanyCount |-> currentCompanyCount, scrollAttempts |-> scrollAttempts,
   companyLinks |-> companyLinks, index |-> index, companies |-> companies,
   extracted |-> extracted]

IdleState ==
  [pc |-> "idle", route |-> "none", request |-> NoRequest, response |-> NoResponse,
   streamState |-> "none", controllerCall |-> "none",
   stream |-> <<>>, emitted |-> <<>>, raised |-> {},
   browser |-> "none", closeCalls |-> 0,
   previousCompanyCount |-> 0, currentCompanyCount |-> 0, scrollAttempts |-> 0,
   companyLinks |-> <<>>, index |-> 0, companies |-> <<>>, extracted |-> {}]

\* No request has arrived.
Idle ==
  /\ pc = "idle"
  /\ route = "none"
  /\ request = NoRequest
  /\ response = NoResponse
  /\ streamState = "none"
  /\ controllerCall = "none"
  /\ stream = <<>>
  /\ emitted = <<>>
  /\ browser = "none"
  /\ closeCalls = 0
  /\ previousCompanyCount = 0
  /\ currentCompanyCount = 0
  /\ scrollAttempts = 0
  /\ companyLinks = <<>>
  /\ index = 0
  /\ companies = <<>>
  /\ extracted = {}
  /\ raised = {}
  /\ other = IdleState

\* The page as useState leaves it: handleScrape has not been called.
NoProgress == [set |-> FALSE, current |-> 0, total |-> 0]

PageLoaded ==
  /\ clientPc = "idle"
  /\ pageUrl = <<>>
  /\ sent = <<>>
  /\ wire = <<>>
  /\ midLine = FALSE
  /\ isLoading = FALSE
  /\ clientCompanies = <<>>
  /\ clientError = ""
  /\ clientProgress = NoProgress

\* The callback of page.evaluate has not been run on its own.
NoEvaluation ==
  /\ domIn = <<>>
  /\ dataOut = <<>>
  /\ evalPc = "ready"
  /\ PageLoaded

Init ==
  /\ Idle
  /\ NoEvaluation
  /\ hrefsIn = <<>>
  /\ linksOut = <<>>
  /\ linksPc = "ready"
  /\ countsIn = <<>>

\* ------------------------------------------------ the event emitter
\* controller.enqueue throws a TypeError unless the stream is readable.
CanEnqueue == streamState = "readable"

Cur == [stream |-> stream, emitted |-> emitted, raised |-> raised]

\* controller.enqueue(encoder.encode(JSON.stringify(msg) + '\n'))
Emit(o, msg) ==
  [o EXCEPT !.emitted = Append(@, msg),
            !.stream  = IF CanEnqueue THEN Append(@, msg) ELSE @]

Caught(o, i, step) == [o EXCEPT !.raised = @ \cup {<<i, step>>}]

\* Suspend at the await named pcv.
Continue(pcv, i, o) ==
  /\ pc' = pcv
  /\ index' = i
  /\ stream' = o.stream
  /\ emitted' = o.emitted
  /\ raised' = o.raised

\* ------------------------------------------------- exception handlers
\* catch (error) { await browser.close(); throw error; }
InnerCatch(i, o) == Continue("innerClose", i, o)

\* The outermost catch: one fatal 'error' event; its enqueue may itself raise.
OuterCatch_Rethrow(i, o) == Continue("rejected", i, o)

\* The outermost catch swallowing the error without an event.
OuterCatch_Swallow(i, o) == Continue("returned", i, o)

OuterCatch(i, o) ==
  IF CanEnqueue THEN Continue("returned", i, Emit(o, FatalMsg))
  ELSE Continue("rejected", i, Emit(o, FatalMsg))

\* Top of one iteration of the item loop, up to `await page.goto(companyUrl)`.
BeginItem(i, links, o) ==
  IF CanEnqueue THEN Continue("goto", i, Emit(o, ProgressMsg(i, links)))
  ELSE InnerCatch(i, Emit(Caught(Emit(o, ProgressMsg(i, links)), i, "enqueue"),
                          ScrapeErrorMsg(links[i])))

\* End of one iteration: the next item, or `await browser.close()`.
\* The loop left after its first iteration.
AfterItem_StopEarly(i, links, o) == Continue("close", i, o)

AfterItem(i, links, o) ==
  IF i < Len(links) THEN BeginItem(i + 1, links, o) ELSE Continue("close", i, o)

\* The per-item catch handler.
ItemCatch_Rethrow(i, links, o, step) == InnerCatch(i, Caught(o, i, step))

\* A failed item is navigated to again.
ItemCatch_Retry(i, links, o, step) ==
  IF CanEnqueue
  THEN BeginItem(i, links, Emit(Caught(o, i, step), ScrapeErrorMsg(links[i])))
  ELSE InnerCatch(i, Emit(Caught(o, i, step), ScrapeErrorMsg(links[i])))

ItemCatch(i, links, o, step) ==
  IF CanEnqueue
  THEN AfterItem(i, links, Emit(Caught(o, i, step), ScrapeErrorMsg(links[i])))
  ELSE InnerCatch(i, Emit(Caught(o, i, step), ScrapeErrorMsg(links[i])))

\* The enqueue of the classification branch, then `await page.waitForTimeout(500)`.
EmitResult_Buffered(i, links, o, msg) == Continue("delay", i, o)

EmitResult(i, links, o, msg) ==
  IF CanEnqueue THEN Continue("delay", i, Emit(o, msg))
  ELSE ItemCatch(i, links, Emit(o, msg), "enqueue")

\* ---------------------------------------------------------------- POST
\* POST: parse, validate, and for an accepted request create the stream, whose
\* start callback runs the scrape function up to `await chromium.launch()`.
POST ==
  /\ pc = "idle"
  /\ \E r \in Routes, req \in Requests :
       /\ route' = r
       /\ request' = req
       /\ response' = Respond(req)
       /\ IF Respond(req).stream
          THEN /\ streamState' = "readable"
               /\ pc' = "launch"
          ELSE /\ streamState' = streamState
               /\ pc' = "responded"
  /\ UNCHANGED <<linkVars, peerVars, controllerCall, outVars, sessVars, scrollVars, companyLinks,
                 index, companies, extracted>>

\* The consumer cancels the response stream (the client went away).  Between
\* the scrape function settling and the wrapper's controller call no other
\* task runs, so no cancel arrives there.
Cancel ==
  /\ streamState = "readable"
  /\ pc \notin {"idle", "responded", "returned", "rejected", "done"}
  /\ streamState' = "cancelled"
  /\ UNCHANGED <<linkVars, peerVars, pc, reqVars, controllerCall, outVars, sessVars, scrollVars,
                 companyLinks, index, companies, extracted>>

\* ------------------------------------------------------- session opening
\* const browser = await chromium.launch({ headless: true })
Launch ==
  /\ pc = "launch"
  /\ \/ /\ browser' = "open"
        /\ Continue("newContext", index, Cur)
     \/ /\ UNCHANGED browser
        /\ OuterCatch(index, Caught(Cur, 0, "launch"))
  /\ UNCHANGED <<linkVars, peerVars, reqVars, streamState, controllerCall, closeCalls, scrollVars,
                 companyLinks, companies, extracted>>

\* const context = await browser.newContext({ userAgent })
NewContext ==
  /\ pc = "newContext"
  /\ \/ Continue("newPage", index, Cur)
     \/ OuterCatch(index, Caught(Cur, 0, "newContext"))
  /\ UNCHANGED <<linkVars, peerVars, reqVars, streamState, controllerCall, sessVars, scrollVars,
                 companyLinks, companies, extracted>>

\* const page = await context.newPage()
NewPage ==
  /\ pc = "newPage"
  /\ \/ Continue("gotoListing", index, Cur)
     \/ OuterCatch(index, Caught(Cur, 0, "newPage"))
  /\ UNCHANGED <<linkVars, peerVars, reqVars, streamState, controllerCall, sessVars, scrollVars,
                 companyLinks, companies, extracted>>

\* ------------------------------------------------------------ discovery
\* await page.goto(url, { waitUntil: 'domcontentloaded', timeout: 30000 })
GotoListing ==
  /\ pc = "gotoListing"
  /\ \/ Continue("settleListing", index, Cur)
     \/ InnerCatch(index, Caught(Cur, 0, "gotoListing"))
  /\ UNCHANGED <<linkVars, peerVars, reqVars, streamState, controllerCall, sessVars, scrollVars,
                 companyLinks, companies, extracted>>

\* await page.waitForTimeout(3000); the counters are declared and the first
\* pass of the do-while starts: previousCompanyCount = currentCompanyCount.
SettleListing ==
  /\ pc = "settleListing"
  /\ \/ /\ Continue("scroll", index, Cur)
        /\ previousCompanyCount' = 0
        /\ currentCompanyCount' = 0
        /\ scrollAttempts' = 0
     \/ /\ InnerCatch(index, Caught(Cur, 0, "settleListing"))
        /\ UNCHANGED scrollVars
  /\ UNCHANGED <<linkVars, peerVars, reqVars, streamState, controllerCall, sessVars,
                 companyLinks, companies, extracted>>

\* await page.evaluate(() => window.scrollTo(0, document.body.scrollHeight))
Scroll ==
  /\ pc = "scroll"
  /\ \/ Continue("scrollWait", index, Cur)
     \/ InnerCatch(index, Caught(Cur, 0, "scroll"))
  /\ UNCHANGED <<linkVars, peerVars, reqVars, streamState, controllerCall, sessVars, scrollVars,
                 companyLinks, companies, extracted>>

\* await page.waitForTimeout(2000)
ScrollWait ==
  /\ pc = "scrollWait"
  /\ \/ Continue("count", index, Cur)
     \/ InnerCatch(index, Caught(Cur, 0, "scrollWait"))
  /\ UNCHANGED <<linkVars, peerVars, reqVars, streamState, controllerCall, sessVars, scrollVars,
                 companyLinks, companies, extracted>>

\* The do-while goes round again: no break at the cap, and the count grew.
ScrollAgain_NoCap(attempts, current, previous) == current > previous

\* The loop test with >= in place of >.
ScrollAgain_OnEqual(attempts, current, previous) ==
  /\ ~(attempts >= maxScrollAttempts)
  /\ current >= previous

ScrollAgain(attempts, current, previous) ==
  /\ ~(attempts >= maxScrollAttempts)
  /\ current > previous

\* currentCompanyCount = await page.evaluate(...); scrollAttempts++; the cap
\* test, the loop test and, when the loop goes round, the next pass's
\* previousCompanyCount = currentCompanyCount.
Count ==
  /\ pc = "count"
  /\ \/ \E page \in ScrollPages :
          LET n == CountCompanyLinks(page)
              attempts == scrollAttempts + 1
          IN  /\ currentCompanyCount' = n
              /\ scrollAttempts' = attempts
              /\ IF ScrollAgain(attempts, n, previousCompanyCount)
                 THEN /\ previousCompanyCount' = n
                      /\ Continue("scroll", index, Cur)
                 ELSE /\ previousCompanyCount' = previousCompanyCount
                      /\ Continue("extractLinks", index, Cur)
     \/ /\ InnerCatch(index, Caught(Cur, 0, "count"))
        /\ UNCHANGED scrollVars
  /\ UNCHANGED <<linkVars, peerVars, reqVars, streamState, controllerCall, sessVars,
                 companyLinks, companies, extracted>>

\* What follows the final extraction pass, up to the first `await page.goto`:
\* the zero-links error and return, or the initial progress event and the top
\* of the first iteration.
AfterDiscovery_NoReturn(links, o) ==
  IF ~CanEnqueue THEN InnerCatch(0, o)
  ELSE IF Len(links) = 0
       THEN Continue("close", 0, Emit(o, NoLinksMsg))
       ELSE BeginItem(1, links, Emit(o, InitialMsg(links)))

\* The initial progress event enqueued before the zero-links test.
AfterDiscovery_ProgressFirst(links, o) ==
  IF ~CanEnqueue THEN InnerCatch(0, Emit(Caught(o, 0, "enqueue"), InitialMsg(links)))
  ELSE IF Len(links) = 0
       THEN Continue("returned", 0, Emit(Emit(o, InitialMsg(links)), NoLinksMsg))
       ELSE BeginItem(1, links, Emit(o, InitialMsg(links)))

\* The zero-links test made on the last count of the scroll loop.
AfterDiscovery_ByLoopCount(links, o) ==
  IF currentCompanyCount = 0
  THEN IF CanEnqueue THEN Continue("returned", 0, Emit(o, NoLinksMsg))
       ELSE InnerCatch(0, Emit(Caught(o, 0, "enqueue"), NoLinksMsg))
  ELSE IF ~CanEnqueue THEN InnerCatch(0, Emit(Caught(o, 0, "enqueue"), InitialMsg(links)))
  ELSE IF Len(links) = 0 THEN Continue("close", 0, Emit(o, InitialMsg(links)))
  ELSE BeginItem(1, links, Emit(o, InitialMsg(links)))

AfterDiscovery(links, o) ==
  IF Len(links) = 0
  THEN IF CanEnqueue THEN Continue("returned", 0, Emit(o, NoLinksMsg))
       ELSE InnerCatch(0, Emit(Caught(o, 0, "enqueue"), NoLinksMsg))
  ELSE IF CanEnqueue THEN BeginItem(1, links, Emit(o, InitialMsg(links)))
       ELSE InnerCatch(0, Emit(Caught(o, 0, "enqueue"), InitialMsg(links)))

\* const companyLinks = await page.evaluate(...).  The scroll counters are
\* last read by the log line before this pass; they are dead from here on
\* and the model forgets them.
ExtractLinksPass(pages) ==
  /\ pc = "extractLinks"
  /\ \/ \E hrefs \in pages :
          /\ companyLinks' = ExtractCompanyLinks(hrefs)
          /\ AfterDiscovery(ExtractCompanyLinks(hrefs), Cur)
     \/ /\ InnerCatch(index, Caught(Cur, 0, "extractLinks"))
        /\ UNCHANGED companyLinks
  /\ UNCHANGED <<linkVars, peerVars, reqVars, streamState, controllerCall, sessVars, companies, extracted>>

ExtractLinksFrom(pages) ==
  /\ ExtractLinksPass(pages)
  /\ previousCompanyCount' = 0
  /\ currentCompanyCount' = 0
  /\ scrollAttempts' = 0

ExtractLinks == ExtractLinksFrom(ListingPages)

\* ------------------------------------------------------------ item loop
\* await page.goto(companyUrl, { waitUntil: 'domcontentloaded', timeout: 15000 })
Goto ==
  /\ pc = "goto"
  /\ \/ Continue("settle", index, Cur)
     \/ ItemCatch(index, companyLinks, Cur, "goto")
  /\ UNCHANGED <<linkVars, peerVars, reqVars, streamState, controllerCall, sessVars, scrollVars,
                 companyLinks, companies, extracted>>

\* await page.waitForTimeout(2000); the flat route then waits for the content
\* marker, the QA route goes straight to the extraction.
Settle ==
  /\ pc = "settle"
  /\ \/ Continue(IF route = "flat" THEN "waitForSelector" ELSE "extract", index, Cur)
     \/ ItemCatch(index, companyLinks, Cur, "settle")
  /\ UNCHANGED <<linkVars, peerVars, reqVars, streamState, controllerCall, sessVars, scrollVars,
                 companyLinks, companies, extracted>>

\* try { await page.waitForSelector('h1.text-3xl', { timeout: 5000 }) }
\* catch (e) { await page.waitForTimeout(1000) }
WaitForSelector ==
  /\ pc = "waitForSelector"
  /\ \/ Continue("extract", index, Cur)
     \/ Continue("waitMore", index, Cur)
  /\ UNCHANGED <<linkVars, peerVars, reqVars, streamState, controllerCall, sessVars, scrollVars,
                 companyLinks, companies, extracted>>

\* await page.waitForTimeout(1000) in the handler of the marker wait
WaitMore ==
  /\ pc = "waitMore"
  /\ \/ Continue("extract", index, Cur)
     \/ ItemCatch(index, companyLinks, Cur, "waitMore")
  /\ UNCHANGED <<linkVars, peerVars, reqVars, streamState, controllerCall, sessVars, scrollVars,
                 companyLinks, companies, extracted>>

\* The company pushed and emitted for an item.
FlatCompany_FirstUrl(companyData, companyUrl) ==
  [name |-> companyData.name, title |-> companyData.title,
   description |-> companyData.description, url |-> companyLinks[1]]

FlatCompany(companyData, companyUrl) ==
  [name |-> companyData.name, title |-> companyData.title,
   description |-> companyData.description, url |-> companyUrl]

QACompany(companyQAData, companyUrl) ==
  [name |-> companyQAData.name, url |-> companyUrl, qaList |-> companyQAData.qaList]

\* const companyData = await page.evaluate(...), the classification and the
\* enqueue of its event.
Extract ==
  /\ pc = "extract"
  /\ \/ /\ route = "flat"
        /\ \E dom \in FlatPages :
             LET companyData == ExtractCompanyData(dom)
                 companyUrl  == companyLinks[index]
             IN  /\ extracted' = extracted \cup {<<index, companyData>>}
                 /\ IF HasName(companyData)
                    THEN /\ companies' = Append(companies, FlatCompany(companyData, companyUrl))
                         /\ EmitResult(index, companyLinks, Cur,
                                       CompanyMsg(FlatCompany(companyData, companyUrl)))
                    ELSE /\ companies' = companies
                         /\ EmitResult(index, companyLinks, Cur, ExtractErrorMsg(companyUrl))
     \/ /\ route = "qa"
        /\ \E dom \in QAPages :
             LET companyQAData == ExtractCompanyQAData(dom)
                 companyUrl    == companyLinks[index]
             IN  /\ extracted' = extracted \cup {<<index, companyQAData>>}
                 /\ IF HasQA(companyQAData)
                    THEN /\ companies' = Append(companies, QACompany(companyQAData, companyUrl))
                         /\ EmitResult(index, companyLinks, Cur,
                                       CompanyMsg(QACompany(companyQAData, companyUrl)))
                    ELSE /\ companies' = companies
                         /\ EmitResult(index, companyLinks, Cur, ExtractErrorMsg(companyUrl))
     \/ /\ ItemCatch(index, companyLinks, Cur, "extract")
        /\ UNCHANGED <<companies, extracted>>
  /\ UNCHANGED <<linkVars, peerVars, reqVars, streamState, controllerCall, sessVars, scrollVars, companyLinks>>

\* await page.waitForTimeout(500)
Delay ==
  /\ pc = "delay"
  /\ \/ AfterItem(index, companyLinks, Cur)
     \/ ItemCatch(index, companyLinks, Cur, "delay")
  /\ UNCHANGED <<linkVars, peerVars, reqVars, streamState, controllerCall, sessVars, scrollVars,
                 companyLinks, companies, extracted>>

\* ------------------------------------------------------ session closing
\* await browser.close() after the item loop, then the 'complete' event.
Close ==
  /\ pc = "close"
  /\ closeCalls' = closeCalls + 1
  /\ \/ /\ browser' = "closed"
        /\ IF CanEnqueue
           THEN Continue("returned", index, Emit(Cur, CompletionMsg(companies, companyLinks)))
           ELSE InnerCatch(index, Emit(Caught(Cur, 0, "enqueue"),
                                       CompletionMsg(companies, companyLinks)))
     \/ /\ UNCHANGED browser
        /\ InnerCatch(index, Caught(Cur, 0, "close"))
  /\ UNCHANGED <<linkVars, peerVars, reqVars, streamState, controllerCall, scrollVars,
                 companyLinks, companies, extracted>>

\* catch (error) { await browser.close(); throw error; }: whether the close
\* returns or raises, an exception reaches the outermost catch.
InnerClose ==
  /\ pc = "innerClose"
  /\ closeCalls' = closeCalls + 1
  /\ \/ browser' = "closed"
     \/ UNCHANGED browser
  /\ OuterCatch(index, Cur)
  /\ UNCHANGED <<linkVars, peerVars, reqVars, streamState, controllerCall, scrollVars,
                 companyLinks, companies, extracted>>

\* ------------------------------------------------- the stream's wrapper
\* await scrapeCompanies(...) returned: controller.close(), which throws on a
\* stream that is no longer readable; the wrapper's catch then calls
\* controller.error, which such a stream ignores.
StreamClose ==
  /\ pc = "returned"
  /\ pc' = "done"
  /\ controllerCall' = "close"
  /\ streamState' = IF streamState = "readable" THEN "closed" ELSE streamState
  /\ UNCHANGED <<linkVars, peerVars, reqVars, outVars, sessVars, scrollVars, companyLinks, index,
                 companies, extracted>>

\* await scrapeCompanies(...) rejected: controller.error(error), which only a
\* readable stream obeys.
StreamError ==
  /\ pc = "rejected"
  /\ pc' = "done"
  /\ controllerCall' = "error"
  /\ streamState' = IF streamState = "readable" THEN "errored" ELSE streamState
  /\ UNCHANGED <<linkVars, peerVars, reqVars, outVars, sessVars, scrollVars, companyLinks, index,
                 companies, extracted>>

Next ==
  \/ POST
  \/ Cancel
  \/ Launch
  \/ NewContext
  \/ NewPage
  \/ GotoListing
  \/ SettleListing
  \/ Scroll
  \/ ScrollWait
  \/ Count
  \/ ExtractLinks
  \/ Goto
  \/ Settle
  \/ WaitForSelector
  \/ WaitMore
  \/ Extract
  \/ Delay
  \/ Close
  \/ InnerClose
  \/ StreamClose
  \/ StreamError

Spec == Init /\ [][Next]_vars

\* No step raises.
NoRaise == raised' = raised

\* ------------------------------------------------------------ fairness
\* The steps of an accepted request: each awaited primitive returns or raises
\* and the continuation runs; a settled scrape function resumes the stream's
\* wrapper.  At most one of them is enabled at a time.  The listing pages are
\* three samples: no link, one link, two links.
LiveListingPages == {<<>>, <<HrefJobs, HrefAcme>>, <<HrefAcme, HrefBeta, HrefAcme>>}

Resume ==
  \/ Launch
  \/ NewContext
  \/ NewPage
  \/ GotoListing
  \/ SettleListing
  \/ Scroll
  \/ ScrollWait
  \/ Count
  \/ ExtractLinksFrom(LiveListingPages)
  \/ Goto
  \/ Settle
  \/ WaitForSelector
  \/ WaitMore
  \/ Extract
  \/ Delay
  \/ Close
  \/ InnerClose
  \/ StreamClose
  \/ StreamError

NextLive == POST \/ Cancel \/ Resume

\* Every page-session primitive eventually returns or raises.
SpecLive == Init /\ [][NextLive]_vars /\ WF_vars(Resume)

\* ----------------------------------------- a listing with many companies
\* The README's limit: "limited to 10 companies per request".
companyLimit == 10

\* A listing page with one company more than the limit.
ManyPage == GrownPage(companyLimit + 1)

\* The flat route on ManyPage: every primitive returns, the consumer reads on,
\* the count pass sees the page's anchors, every profile page has a name.
NextMany ==
  \/ POST /\ route' = "flat" /\ response'.stream
  \/ Launch /\ NoRaise
  \/ NewContext /\ NoRaise
  \/ NewPage /\ NoRaise
  \/ GotoListing /\ NoRaise
  \/ SettleListing /\ NoRaise
  \/ Scroll /\ NoRaise
  \/ ScrollWait /\ NoRaise
  \/ Count /\ NoRaise /\ currentCompanyCount' = CountCompanyLinks(ManyPage)
  \/ ExtractLinksFrom({ManyPage}) /\ NoRaise
  \/ Goto /\ NoRaise
  \/ Settle /\ NoRaise
  \/ WaitForSelector
  \/ WaitMore /\ NoRaise
  \/ Extract /\ NoRaise /\ \A x \in extracted' : HasName(x[2])
  \/ Delay /\ NoRaise
  \/ Close /\ NoRaise
  \/ StreamClose

SpecMany == Init /\ [][NextMany]_vars

\* ------------------------------------------------------- two requests
\* Two requests are in flight.  The one whose state is in the variables runs
\* up to its next await; Switch hands the event loop to the other one.  The
\* routes keep no module-level state: everything a request touches is created
\* inside its own POST call, so the switch exchanges the whole request state.
Switch_SharedBrowser ==
  /\ pc \notin {"returned", "rejected"}
  /\ other' = ReqState
  /\ pc' = other.pc
  /\ route' = other.route
  /\ request' = other.request
  /\ response' = other.response
  /\ streamState' = other.streamState
  /\ controllerCall' = other.controllerCall
  /\ stream' = other.stream
  /\ emitted' = other.emitted
  /\ raised' = other.raised
  /\ previousCompanyCount' = other.previousCompanyCount
  /\ currentCompanyCount' = other.currentCompanyCount
  /\ scrollAttempts' = other.scrollAttempts
  /\ companyLinks' = other.companyLinks
  /\ index' = other.index
  /\ companies' = other.companies
  /\ extracted' = other.extracted
  /\ UNCHANGED <<linkVars, sessVars>>

Switch ==
  /\ pc \notin {"returned", "rejected"}
  /\ other' = ReqState
  /\ pc' = other.pc
  /\ route' = other.route
  /\ request' = other.request
  /\ response' = other.response
  /\ streamState' = other.streamState
  /\ controllerCall' = other.controllerCall
  /\ stream' = other.stream
  /\ emitted' = other.emitted
  /\ raised' = other.raised
  /\ browser' = other.browser
  /\ closeCalls' = other.closeCalls
  /\ previousCompanyCount' = other.previousCompanyCount
  /\ currentCompanyCount' = other.currentCompanyCount
  /\ scrollAttempts' = other.scrollAttempts
  /\ companyLinks' = other.companyLinks
  /\ index' = other.index
  /\ companies' = other.companies
  /\ extracted' = other.extracted
  /\ UNCHANGED linkVars

\* Listing pages of the two-request runs: no link, or one.
TwoListingPages == SeqsUpTo({HrefAcme}, 1)

\* One step of the running request.
StepTwo ==
  \/ POST /\ response'.stream
  \/ Cancel
  \/ Launch
  \/ NewContext
  \/ NewPage
  \/ GotoListing
  \/ SettleListing
  \/ Scroll
  \/ ScrollWait
  \/ Count /\ currentCompanyCount' <= 1
  \/ ExtractLinksFrom(TwoListingPages)
  \/ Goto
  \/ Settle
  \/ WaitForSelector
  \/ WaitMore
  \/ Extract
  \/ Delay
  \/ Close
  \/ InnerClose
  \/ StreamClose
  \/ StreamError

NextTwo == StepTwo \/ Switch

SpecTwo == Init /\ [][NextTwo]_vars

\* --------------------------------------------- the scroll loop on its own
\* The counts the passes of one discovery return: i on pass i, except on pass
\* g + 1, which returns v.  With v <= g pass g + 1 is the first whose count
\* does not exceed the previous one; later passes grow again.
CountsOf(g, v) ==
  [i \in 1..(maxScrollAttempts + 1) |-> IF i = g + 1 THEN v ELSE i]

CountSequences ==
  {CountsOf(g, v) : g \in 0..(maxScrollAttempts + 1), v \in 0..(maxScrollAttempts + 1)}

InitScroll ==
  /\ Idle
  /\ NoEvaluation
  /\ hrefsIn = <<>>
  /\ linksOut = <<>>
  /\ linksPc = "ready"
  /\ countsIn \in CountSequences

\* The flat route up to the end of the scroll loop: every primitive returns,
\* and pass i counts countsIn[i] company anchors.
NextScroll ==
  \/ POST /\ route' = "flat" /\ response'.stream
  \/ Launch /\ NoRaise
  \/ NewContext /\ NoRaise
  \/ NewPage /\ NoRaise
  \/ GotoListing /\ NoRaise
  \/ SettleListing /\ NoRaise
  \/ Scroll /\ NoRaise
  \/ ScrollWait /\ NoRaise
  \/ Count /\ NoRaise /\ currentCompanyCount' = countsIn[scrollAttempts + 1]

SpecScroll == InitScroll /\ [][NextScroll]_vars

\* ------------------------------------- the link extraction on its own
\* Every anchor list of up to MaxAnchors hrefs, drawn from one sample of each
\* shape the href predicate tells apart.
AnchorPool ==
  { HrefRoot, HrefRootSlash, HrefFiltered, HrefFounders, HrefFoundersClub,
    HrefIndustry, HrefLocation, HrefBatch, HrefFragment, HrefJobs,
    HrefOtherSite, HrefNested, HrefAcme, HrefBeta }

InitLinks ==
  /\ Idle
  /\ NoEvaluation
  /\ hrefsIn \in SeqsUpTo(AnchorPool, MaxAnchors)
  /\ linksOut = <<>>
  /\ linksPc = "ready"
  /\ countsIn = <<>>

\* The final extraction pass applied to the anchors of the page.
RunExtractCompanyLinks ==
  /\ linksPc = "ready"
  /\ linksOut' = ExtractCompanyLinks(hrefsIn)
  /\ linksPc' = "done"
  /\ UNCHANGED <<hrefsIn, countsIn, evalVars, clientVars, peerVars, pc, reqVars, streamState, controllerCall,
                 outVars, sessVars, scrollVars, companyLinks, index, companies, extracted>>

NextLinks == RunExtractCompanyLinks

SpecLinks == InitLinks /\ [][NextLinks]_vars

\* ------------------------------------- the loop counts kept to the end
\* The final extraction pass with the scroll counters left as the loop left
\* them: the code never assigns them again.
ExtractLinksKeeping(pages) ==
  /\ ExtractLinksPass(pages)
  /\ UNCHANGED scrollVars

\* A request on a listing page that shows at most MaxHrefs company anchors to
\* a count pass and one of LiveListingPages to the final pass.
NextDiscovery ==
  \/ POST
  \/ Cancel
  \/ Launch
  \/ NewContext
  \/ NewPage
  \/ GotoListing
  \/ SettleListing
  \/ Scroll
  \/ ScrollWait
  \/ Count /\ currentCompanyCount' <= MaxHrefs
  \/ ExtractLinksKeeping(LiveListingPages)
  \/ Goto
  \/ Settle
  \/ WaitForSelector
  \/ WaitMore
  \/ Extract
  \/ Delay
  \/ Close
  \/ InnerClose
  \/ StreamClose
  \/ StreamError

SpecDiscovery == Init /\ [][NextDiscovery]_vars

\* ---------------------------- the flat page.evaluate callback on its own
\* Sample texts for the fallback loop: a long tagline, a long body text, and
\* 50 characters wrapped in whitespace.
LongTitle   == [i \in 1..51 |-> "t"]
OtherLong   == [i \in 1..52 |-> "z"]
PaddedFifty == <<" ">> \o FiftyText \o <<" ">>

NameElements        == {NoElement, Element(<<" ">>), Element(<<" ", "A">>), Element(LongText)}
TitleElements       == {NoElement, Element(<<"T">>), Element(LongTitle)}
DescriptionElements == {NoElement, Element(<<" ">>), Element(<<"D", " ">>)}
FallbackElements ==
  { NoElement, Element(FiftyText), Element(PaddedFifty), Element(LongText),
    Element(LongTitle), Element(OtherLong) }

\* Every profile page built from the samples: what each of the six selectors
\* of the callback matches.
FlatInputs ==
  { FlatPage(n, t, d, <<f1, f2, f3>>) :
      n \in NameElements, t \in TitleElements, d \in DescriptionElements,
      f1 \in FallbackElements, f2 \in FallbackElements, f3 \in FallbackElements }

InitFlat ==
  /\ Idle
  /\ hrefsIn = <<>>
  /\ linksOut = <<>>
  /\ linksPc = "ready"
  /\ countsIn = <<>>
  /\ domIn \in FlatInputs
  /\ dataOut = <<>>
  /\ evalPc = "ready"
  /\ PageLoaded

\* const companyData = await page.evaluate(() => { ... })
RunExtractCompanyData ==
  /\ evalPc = "ready"
  /\ dataOut' = ExtractCompanyData(domIn)
  /\ evalPc' = "done"
  /\ UNCHANGED <<domIn, hrefsIn, linksOut, linksPc, countsIn, clientVars, peerVars, pc, reqVars, streamState,
                 controllerCall, outVars, sessVars, scrollVars, companyLinks, index, companies,
                 extracted>>

NextFlat == RunExtractCompanyData

SpecFlat == InitFlat /\ [][NextFlat]_vars

\* ------------------------------ the QA page.evaluate callback on its own
MaxBlocks == 2

H1Elements == {NoElement, Element(<<" ">>), Element(<<" ", "A">>)}

\* What the five name selectors match, in list order.
NameCandidateLists ==
  { <<c1, c2, NoElement, NoElement, c5>> :
      c1 \in {NoElement, Element(<<" ">>), Element(<<"B", " ">>)},
      c2 \in {NoElement, Element(<<" ">>), Element(<<"C">>)},
      c5 \in {NoElement, Element(<<"E">>)} }

QuestionElements == {NoElement, Element(<<" ">>), Element(<<" ", "Q">>), Element(<<"R">>)}

\* The answer region of a block: absent, without paragraphs, or with
\* paragraphs inside a container that has text of its own.
AnswerRegion(ps, text) == [found |-> TRUE, paragraphs |-> ps, textContent |-> text]

AnswerElements ==
  { NoAnswer, AnswerText(<<"z", " ">>), AnswerText(<<" ">>),
    AnswerRegion(<<<<" ", "x">>, <<" ">>, <<"y">>>>, <<"x", "y", "w">>),
    AnswerRegion(<<<<" ">>, <<>>>>, <<"w">>),
    AnswerRegion(<<<<"x">>>>, <<"x">>) }

QABlocks == {QABlock(q, a) : q \in QuestionElements, a \in AnswerElements}

\* A block whose paragraphs are all blank, then one with two paragraphs kept.
SampleBlocks ==
  << QABlock(Element(<<"Q">>), AnswerRegion(<<<<" ">>, <<>>>>, <<"w">>)),
     QABlock(Element(<<"R">>),
             AnswerRegion(<<<<" ", "x">>, <<" ">>, <<"y">>>>, <<"x", "y", "w">>)) >>

\* Every name lookup over the sample blocks, and every list of up to
\* MaxBlocks blocks under each primary heading.
QAInputs ==
  { QAPage(h, c, SampleBlocks) : h \in H1Elements, c \in NameCandidateLists }
  \cup { QAPage(h, NoCandidates, b) : h \in H1Elements, b \in SeqsUpTo(QABlocks, MaxBlocks) }

InitQA ==
  /\ Idle
  /\ hrefsIn = <<>>
  /\ linksOut = <<>>
  /\ linksPc = "ready"
  /\ countsIn = <<>>
  /\ domIn \in QAInputs
  /\ dataOut = <<>>
  /\ evalPc = "ready"
  /\ PageLoaded

\* const companyQAData = await page.evaluate(() => { ... })
RunExtractCompanyQAData ==
  /\ evalPc = "ready"
  /\ dataOut' = ExtractCompanyQAData(domIn)
  /\ evalPc' = "done"
  /\ UNCHANGED <<domIn, hrefsIn, linksOut, linksPc, countsIn, clientVars, peerVars, pc, reqVars, streamState,
                 controllerCall, outVars, sessVars, scrollVars, companyLinks, index, companies,
                 extracted>>

NextQA == RunExtractCompanyQAData

SpecQA == InitQA /\ [][NextQA]_vars

\* ------------------------------------------- the page: handleScrape
MaxChunk == 5

\* The body of the response as the reader sees it: each event is the text
\* JSON.stringify(msg) followed by '\n'.  A text is cut into tokens: the
\* opening brace, what is between the braces, the closing brace.
Token(kind)   == [tok |-> kind, msg |-> [type |-> "none"]]
BodyToken(m)  == [tok |-> "body", msg |-> m]
Stringify(m)  == <<Token("open"), BodyToken(m), Token("close")>>
EncodeLine(m) == Stringify(m) \o <<Token("nl")>>

RECURSIVE WireOf(_)
WireOf(events) ==
  IF events = <<>> THEN <<>> ELSE EncodeLine(Head(events)) \o WireOf(Tail(events))

\* JSON.parse(line): the value, or a SyntaxError on anything but one whole
\* JSON text.
JSONParse(line) ==
  IF /\ Len(line) = 3
     /\ line[1].tok = "open"
     /\ line[2].tok = "body"
     /\ line[3].tok = "close"
  THEN [ok |-> TRUE, data |-> line[2].msg]
  ELSE [ok |-> FALSE, data |-> [type |-> "none"]]

\* chunk.split('\n')
RECURSIVE SplitFrom(_, _, _)
SplitFrom(chunk, k, line) ==
  IF k > Len(chunk) THEN <<line>>
  ELSE IF chunk[k].tok = "nl" THEN <<line>> \o SplitFrom(chunk, k + 1, <<>>)
       ELSE SplitFrom(chunk, k + 1, Append(line, chunk[k]))

\* chunk.split('\n').filter(line => line.trim())
LinesOf(chunk) == SelectSeq(SplitFrom(chunk, 1, <<>>), LAMBDA line : line # <<>>)

\* The page state the read loop writes.
PageState == [companies |-> clientCompanies, isLoading |-> isLoading,
              error |-> clientError, progress |-> clientProgress]

\* switch (data.type) { ... }
HandleData(st, data) ==
  CASE data.type = "progress" ->
         [st EXCEPT !.progress = [set |-> TRUE, current |-> data.current, total |-> data.total]]
    [] data.type = "company"  -> [st EXCEPT !.companies = Append(@, data.data)]
    [] data.type = "complete" -> [st EXCEPT !.isLoading = FALSE]
    [] data.type = "error"    -> [st EXCEPT !.error = data.message, !.isLoading = FALSE]
    [] OTHER -> st

\* try { const data = JSON.parse(line); ... } catch (parseError) { console.error(...) }
HandleLine(st, line) ==
  IF JSONParse(line).ok THEN HandleData(st, JSONParse(line).data) ELSE st

\* for (const line of lines) { ... }
RECURSIVE HandleLines(_, _)
HandleLines(st, lines) ==
  IF lines = <<>> THEN st ELSE HandleLines(HandleLine(st, Head(lines)), Tail(lines))

\* The event streams the flat route sends on a response it closes.
TwoLinks == <<HrefAcme, HrefBeta>>
AcmeCompany == FlatCompany([name |-> <<"A">>, title |-> <<"T">>, description |-> <<"D">>], HrefAcme)
BetaCompany == FlatCompany([name |-> <<"B">>, title |-> <<>>, description |-> LongText], HrefBeta)

ServerStreams ==
  { <<InitialMsg(TwoLinks), ProgressMsg(1, TwoLinks), CompanyMsg(AcmeCompany),
      ProgressMsg(2, TwoLinks), CompanyMsg(BetaCompany),
      CompletionMsg(<<AcmeCompany, BetaCompany>>, TwoLinks)>>,
    <<InitialMsg(TwoLinks), ProgressMsg(1, TwoLinks), ScrapeErrorMsg(HrefAcme),
      ProgressMsg(2, TwoLinks), CompanyMsg(BetaCompany),
      CompletionMsg(<<BetaCompany>>, TwoLinks)>>,
    <<InitialMsg(<<HrefAcme>>), ProgressMsg(1, <<HrefAcme>>), CompanyMsg(AcmeCompany),
      CompletionMsg(<<AcmeCompany>>, <<HrefAcme>>)>>,
    <<NoLinksMsg>>,
    <<FatalMsg>> }

\* What the page's url field may hold when the button is pressed.
PageUrls == {<<>>, <<" ">>, OtherUrl, ListingUrl}

\* catch (error) { setError(...); setIsLoading(false); }
ClientCatch(message) ==
  /\ clientPc' = "caught"
  /\ clientError' = message
  /\ isLoading' = FALSE

\* handleScrape up to `await fetch(...)`.
HandleScrape ==
  /\ clientPc = "idle"
  /\ \E u \in PageUrls :
       /\ pageUrl' = u
       /\ IF Trim(u) = <<>>
          THEN /\ clientError' = "Please enter a valid Y Combinator URL"
               /\ clientPc' = "returned"
               /\ UNCHANGED <<isLoading, clientCompanies, clientProgress>>
          ELSE /\ isLoading' = TRUE
               /\ clientError' = ""
               /\ clientCompanies' = <<>>
               /\ clientProgress' = NoProgress
               /\ clientPc' = "fetch"
  /\ UNCHANGED <<sent, wire, midLine>>
  /\ UNCHANGED <<hrefsIn, linksOut, linksPc, countsIn, evalVars, peerVars, pc, reqVars, streamState,
                 controllerCall, outVars, sessVars, scrollVars, companyLinks, index, companies,
                 extracted>>

\* const response = await fetch('/api/scrape', ...), the response.ok test
\* and the reader.
Fetch ==
  /\ clientPc = "fetch"
  /\ \/ /\ Respond(JsonRequest(UrlString(pageUrl))).stream
        /\ \E s \in ServerStreams :
             /\ sent' = s
             /\ wire' = WireOf(s)
        /\ clientPc' = "read"
        /\ UNCHANGED <<isLoading, clientError>>
     \/ /\ ~Respond(JsonRequest(UrlString(pageUrl))).stream
        /\ ClientCatch("HTTP error! status")
        /\ UNCHANGED <<sent, wire>>
     \/ /\ ClientCatch("Failed to fetch")
        /\ UNCHANGED <<sent, wire>>
  /\ UNCHANGED <<pageUrl, midLine, clientCompanies, clientProgress>>
  /\ UNCHANGED <<hrefsIn, linksOut, linksPc, countsIn, evalVars, peerVars, pc, reqVars, streamState,
                 controllerCall, outVars, sessVars, scrollVars, companyLinks, index, companies,
                 extracted>>

\* One pass of the read loop on a chunk of n tokens.
ReadChunk ==
  /\ clientPc = "read"
  /\ wire # <<>>
  /\ \E n \in 1..MaxChunk :
       /\ n <= Len(wire)
       /\ LET chunk == SubSeq(wire, 1, n)
              st    == HandleLines(PageState, LinesOf(chunk))
          IN  /\ wire' = SubSeq(wire, n + 1, Len(wire))
              /\ midLine' = (midLine \/ chunk[n].tok # "nl")
              /\ clientCompanies' = st.companies
              /\ isLoading' = st.isLoading
              /\ clientError' = st.error
              /\ clientProgress' = st.progress
  /\ UNCHANGED <<clientPc, pageUrl, sent>>
  /\ UNCHANGED <<hrefsIn, linksOut, linksPc, countsIn, evalVars, peerVars, pc, reqVars, streamState,
                 controllerCall, outVars, sessVars, scrollVars, companyLinks, index, companies,
                 extracted>>

\* reader.read() returned done: break, and the handler returns.
ReadDone ==
  /\ clientPc = "read"
  /\ wire = <<>>
  /\ clientPc' = "returned"
  /\ UNCHANGED <<pageUrl, sent, wire, midLine, isLoading, clientCompanies, clientError,
                 clientProgress>>
  /\ UNCHANGED <<hrefsIn, linksOut, linksPc, countsIn, evalVars, peerVars, pc, reqVars, streamState,
                 controllerCall, outVars, sessVars, scrollVars, companyLinks, index, companies,
                 extracted>>

\* reader.read() rejected: the connection broke.
ReadRaises ==
  /\ clientPc = "read"
  /\ ClientCatch("network error")
  /\ UNCHANGED <<pageUrl, sent, wire, midLine, clientCompanies, clientProgress>>
  /\ UNCHANGED <<hrefsIn, linksOut, linksPc, countsIn, evalVars, peerVars, pc, reqVars, streamState,
                 controllerCall, outVars, sessVars, scrollVars, companyLinks, index, companies,
                 extracted>>

NextClient ==
  \/ HandleScrape
  \/ Fetch
  \/ ReadChunk
  \/ ReadDone
  \/ ReadRaises

SpecClient == Init /\ [][NextClient]_vars

\* =================================================================
\* Properties
\* =================================================================
\* POST answered with the stream: the request was accepted.
Accepted == response.stream

\* The scrape function has settled (returned or rejected).
Settled == pc \in {"returned", "rejected", "done"}

IsTerminal(e) == e.type \in {"complete", "error"}

TerminalPositions(s) == {i \in 1..Len(s) : IsTerminal(s[i])}

Has(s, e) == \E i \in 1..Len(s) : s[i] = e

CompanyPositions(s, url) ==
  {i \in 1..Len(s) : s[i].type = "company" /\ s[i].data.url = url}

ErrorPositions(s, url) ==
  {i \in 1..Len(s) : s[i].type = "company_error" /\ s[i].url = url}

\* Item j has its company or company_error event in s.
Resolved(s, j) ==
  CompanyPositions(s, companyLinks[j]) \cup ErrorPositions(s, companyLinks[j]) # {}

LastType(s) == IF s = <<>> THEN "none" ELSE s[Len(s)].type

\* The steps of an iteration that navigate to the profile page or extract from it.
PageSteps == {"goto", "settle", "waitMore", "extract"}

\* C1: once the browser has been launched, it is closed before the scrape
\* function returns, on every exit path; no path returns with the browser
\* still open.
C1_BrowserClosedOnReturn ==
  (Settled /\ browser # "none") => browser = "closed"

\* C2: within one request browser.close() is invoked at most once, also when
\* the close on the success path raises or the enqueue of 'complete' raises.
C2_CloseAtMostOnce == closeCalls <= 1

\* C3 (as claimed): the stream of every accepted request contains exactly one
\* terminal event ('complete' or 'error'), and it is the last event.
C3_ExactlyOneTerminal ==
  (pc = "done" /\ Accepted) => TerminalPositions(stream) = {Len(stream)}

\* C3 (amended): the stream never holds more than one terminal event and
\* nothing is enqueued after it; when the stream ends closed by the producer
\* it holds exactly one, as its last event; the only other way a request ends
\* is with the stream cancelled by the consumer before the terminal event
\* could be enqueued, and then the stream holds none.
C3_TerminalLastUnlessCancelled ==
  /\ TerminalPositions(stream) \subseteq {Len(stream)}
  /\ (pc = "done" /\ Accepted) =>
       \/ streamState = "closed" /\ TerminalPositions(stream) = {Len(stream)}
       \/ streamState = "cancelled" /\ TerminalPositions(stream) = {}

C3_Witness ==
  /\ pc = "done"
  /\ streamState = "closed"
  /\ Len(stream) >= 4
  /\ LastType(stream) = "complete"

C5_OneResolutionPerLink ==
  LastType(stream) = "complete" =>
    \A j \in 1..Len(companyLinks) :
      Cardinality(CompanyPositions(stream, companyLinks[j]))
        + Cardinality(ErrorPositions(stream, companyLinks[j])) = 1

\* C6: the scroll loop makes at most 20 attempts whatever counts the page
\* returns; a page whose count grew on every attempt has left the loop after
\* exactly 20 attempts, at the final extraction pass.
C6_ScrollBounded ==
  /\ scrollAttempts <= maxScrollAttempts
  /\ pc \in {"scroll", "scrollWait", "count"} => scrollAttempts < maxScrollAttempts
  /\ (pc = "extractLinks" /\ currentCompanyCount > previousCompanyCount) =>
       scrollAttempts = maxScrollAttempts

C6_Witness ==
  /\ pc = "extractLinks"
  /\ scrollAttempts = maxScrollAttempts
  /\ currentCompanyCount > previousCompanyCount
  /\ currentCompanyCount >= maxScrollAttempts

\* The exclusion patterns: the listing root, a filtered listing URL, the
\* founders, industry, location and batch index paths, a fragment, a jobs link.
MatchesExclusion(href) ==
  \/ href \in {HrefRoot, HrefRootSlash}
  \/ EndsWith(href, <<"/companies">>)
  \/ EndsWith(href, <<"/companies", "/">>)
  \/ Includes(href, <<"/companies", "?">>)
  \/ \E dir \in {"founders", "industry", "location", "batch"} :
       Includes(href, <<"/companies", "/", dir>>)
  \/ \E k \in 1..Len(href) : href[k] = "#"
  \/ Includes(href, <<"/", "jobs">>)

\* C7: the list returned by the final extraction pass has no duplicate, keeps
\* the first-seen order of the page's anchors and holds no URL that matches
\* an exclusion pattern.
C7_LinksUniqueOrderedFiltered ==
  linksPc = "done" =>
    /\ \A i, j \in 1..Len(linksOut) : linksOut[i] = linksOut[j] => i = j
    /\ \A i \in 1..Len(linksOut) : Has(hrefsIn, linksOut[i])
    /\ \A i, j \in 1..Len(linksOut) :
         i < j => IndexOf(hrefsIn, linksOut[i]) < IndexOf(hrefsIn, linksOut[j])
    /\ \A i \in 1..Len(linksOut) : ~MatchesExclusion(linksOut[i])

C7_Witness ==
  /\ linksPc = "done"
  /\ hrefsIn = <<HrefBeta, HrefJobs, HrefAcme, HrefBeta>>
  /\ linksOut = <<HrefBeta, HrefAcme>>

\* C8: flat mode: for each item whose extraction returned, a company event is
\* emitted if and only if the extracted name is non-empty; with an empty name
\* the company_error of the classification is emitted instead, whatever the
\* tagline and the description are.
C8_FlatRecordIffName ==
  route = "flat" =>
    \A x \in extracted :
      LET companyUrl == companyLinks[x[1]]
          named      == x[2].name # <<>>
      IN  /\ CompanyPositions(emitted, companyUrl) # {} <=> named
          /\ Has(emitted, ExtractErrorMsg(companyUrl)) <=> ~named
          /\ streamState # "cancelled" =>
               /\ CompanyPositions(stream, companyUrl) # {} <=> named
               /\ Has(stream, ExtractErrorMsg(companyUrl)) <=> ~named

C8_Witness ==
  /\ route = "flat"
  /\ streamState = "readable"
  /\ \E x \in extracted :
       /\ x[2].name = <<>>
       /\ x[2].title # <<>>
       /\ x[2].description # <<>>
       /\ Has(stream, ExtractErrorMsg(companyLinks[x[1]]))
  /\ \E x \in extracted :
       /\ x[2].name # <<>>
       /\ x[2].title = <<>>
       /\ CompanyPositions(stream, companyLinks[x[1]]) # {}

\* C9: QA mode: for each item whose extraction returned, a company event is
\* emitted if and only if the extracted Q&A list holds at least one pair whose
\* question and answer are both non-empty, also when the name is empty.
C9_QARecordIffPair ==
  route = "qa" =>
    \A x \in extracted :
      CompanyPositions(emitted, companyLinks[x[1]]) # {}
        <=> \E k \in 1..Len(x[2].qaList) :
              x[2].qaList[k].question # <<>> /\ x[2].qaList[k].answer # <<>>

\* No browser was launched, no stream was created, no event was emitted.
NothingAcquired ==
  /\ browser = "none"
  /\ closeCalls = 0
  /\ streamState = "none"
  /\ emitted = <<>>
  /\ stream = <<>>

\* C10: a request with a missing or empty url gets status 400 with the error
\* 'URL is required', a request whose url lacks 'ycombinator.com/companies'
\* gets status 400; in both cases nothing is acquired and nothing is emitted.
C10_ValidationBeforeResources ==
  (pc # "idle" /\ request.body = "json") =>
    /\ (request.url.t = "undefined" \/ request.url = UrlString(<<>>)) =>
         /\ response = ErrorResponse(400, "URL is required")
         /\ NothingAcquired
    /\ (request.url.t = "string"
        /\ ~Includes(request.url.s, <<"ycombinator.com", "/companies">>)) =>
         /\ response.status = 400
         /\ ~response.stream
         /\ NothingAcquired

C10_Witness ==
  /\ pc = "responded"
  /\ request = JsonRequest(UrlString(OtherUrl))
  /\ response = ErrorResponse(400, "Please provide a valid Y Combinator companies URL")
  /\ NothingAcquired

\* The steps of the session opening and of the discovery.
DiscoverySteps ==
  {"launch", "newContext", "newPage", "gotoListing", "settleListing",
   "scroll", "scrollWait", "count", "extractLinks"}

\* The final extraction pass has returned companyLinks.
LinksExtracted ==
  /\ pc \notin {"idle", "responded"} \cup DiscoverySteps
  /\ \A s \in DiscoverySteps : <<0, s>> \notin raised

\* C11 (as claimed): when the final extraction pass yields zero links, the
\* whole stream is exactly one fatal 'error' event.
C11_ZeroLinksSingleError ==
  (LinksExtracted /\ companyLinks = <<>>) => stream = <<NoLinksMsg>>

\* C11 (amended): when the final extraction pass yields zero links, the first
\* event handed to the stream is the fatal 'error' event, no progress, company,
\* company_error or 'complete' event is ever handed to it, and the stream is
\* exactly that one 'error' event unless the consumer cancelled the stream
\* before it was enqueued, in which case the stream stays empty.
C11_ZeroLinksSingleErrorUnlessCancelled ==
  (LinksExtracted /\ companyLinks = <<>>) =>
    /\ emitted # <<>> /\ emitted[1] = NoLinksMsg
    /\ \A k \in 1..Len(emitted) : emitted[k].type = "error"
    /\ \/ stream = <<NoLinksMsg>>
       \/ streamState = "cancelled" /\ stream = <<>>

C11_Witness ==
  /\ pc = "done"
  /\ LinksExtracted
  /\ companyLinks = <<>>
  /\ streamState = "closed"
  /\ stream = <<NoLinksMsg>>

IsCompanyEvent(e) == e.type = "company"

\* The URLs carried by the company events of s, in the order of s.
CompanyUrls(s) ==
  LET sel == SelectSeq(s, IsCompanyEvent)
  IN  [k \in 1..Len(sel) |-> sel[k].data.url]

\* u is a subsequence of the duplicate-free list links.
IsSubsequenceOf(u, links) ==
  /\ \A k \in 1..Len(u) : Has(links, u[k])
  /\ \A k, l \in 1..Len(u) : k < l => IndexOf(links, u[k]) < IndexOf(links, u[l])

\* Every discovered link was loaded and its extraction returned a name.
AllNamed ==
  /\ LinksExtracted
  /\ Len(companyLinks) >= 1
  /\ \A j \in 1..Len(companyLinks) :
       \E x \in extracted : x[1] = j /\ x[2].name # <<>>

C13_CompleteCounts ==
  \A k \in 1..Len(stream) :
    stream[k].type = "complete" =>
      /\ stream[k].totalScraped
           = Cardinality({i \in 1..(k - 1) : stream[i].type = "company"})
      /\ stream[k].totalFound = Len(companyLinks)
      /\ stream[k].totalScraped <= stream[k].totalFound

\* Two links, the navigation to the second one raises.
C13_Witness ==
  /\ pc = "done"
  /\ Len(companyLinks) = 2
  /\ raised = {<<2, "goto">>}
  /\ Len(stream) = 6
  /\ stream[3].type = "company" /\ stream[3].data.url = companyLinks[1]
  /\ stream[5] = ScrapeErrorMsg(companyLinks[2])
  /\ stream[6] = [type |-> "complete", totalScraped |-> 1, totalFound |-> 2]

\* The awaits of one iteration of the item loop.
ItemSteps == {"goto", "settle", "waitForSelector", "waitMore", "extract", "delay"}

\* Position p of s holds the company or company_error event of item j.
IsResolutionOf(s, p, j) ==
  \/ s[p].type = "company" /\ s[p].data.url = companyLinks[j]
  \/ s[p].type = "company_error" /\ s[p].url = companyLinks[j]

\* C14: while item N+1 is being processed (from the navigation to it on), the
\* company or company_error event of every earlier item is already on the
\* stream, and it precedes the progress event of the item that follows it.
C14_IncrementalEmission ==
  /\ pc \in ItemSteps =>
       /\ Has(stream, ProgressMsg(index, companyLinks))
       /\ \A j \in 1..(index - 1) : \E p \in 1..Len(stream) : IsResolutionOf(stream, p, j)
  /\ pc = "delay" => \E p \in 1..Len(stream) : IsResolutionOf(stream, p, index)
  /\ \A q \in 1..Len(stream) :
       (stream[q].type = "progress" /\ stream[q].current >= 2) =>
         \E p \in 1..(q - 1) : IsResolutionOf(stream, p, stream[q].current - 1)

\* Item 2 is being navigated to; item 1's event is on the stream already.
C14_Witness ==
  /\ pc = "goto"
  /\ index = 2
  /\ Len(stream) = 4
  /\ IsResolutionOf(stream, 3, 1)
  /\ stream[4] = ProgressMsg(2, companyLinks)

\* C15: whatever the number of discovered links, at most 10 profile pages are
\* visited and at most 10 company events are emitted in one request.
C15_AtMostTenCompanies ==
  /\ index <= companyLimit
  /\ Cardinality({p \in 1..Len(stream) : stream[p].type = "company"}) <= companyLimit

\* C16: if the browser launched and browser.newContext(), context.newPage() or
\* the navigation to the listing page raised, the browser is closed and the
\* stream is the single fatal 'error' event.
C16_PartialSessionClosed ==
  (pc = "done" /\ \E s \in {"newContext", "newPage", "gotoListing"} : <<0, s>> \in raised) =>
    /\ browser = "closed"
    /\ stream = <<FatalMsg>>

\* C17 (as claimed): the scrape function never rejects; the stream is always
\* ended by controller.close() and never by controller.error().
C17_NeverRejects ==
  /\ pc # "rejected"
  /\ controllerCall # "error"
  /\ streamState # "errored"
  /\ pc = "done" => (controllerCall = "close" /\ streamState = "closed")

\* C17 (amended): every step that raises is handed to the stream as an event
\* (the item's company_error, or the fatal 'error' once the function has
\* settled), and the event is on the stream unless the consumer cancelled it.
\* The scrape function rejects only when the enqueue of the fatal 'error' in
\* the outermost handler throws, which happens only on a cancelled stream;
\* controller.error() is then called on a stream that ignores it, so the
\* stream is never errored.  On a stream that was not cancelled the function
\* returns and controller.close() ends the stream.
C17_FailuresSurfaceAsEvents ==
  /\ streamState # "errored"
  /\ pc = "rejected" =>
       (streamState = "cancelled" /\ emitted[Len(emitted)] = FatalMsg)
  /\ controllerCall = "error" => streamState = "cancelled"
  /\ (pc = "done" /\ streamState # "cancelled") =>
       (controllerCall = "close" /\ streamState = "closed")
  /\ \A f \in raised :
       /\ f[1] >= 1 =>
            /\ Has(emitted, ScrapeErrorMsg(companyLinks[f[1]]))
            /\ streamState # "cancelled" => Has(stream, ScrapeErrorMsg(companyLinks[f[1]]))
       /\ (f[1] = 0 /\ Settled) =>
            /\ Has(emitted, FatalMsg)
            /\ streamState # "cancelled" => Has(stream, FatalMsg)

\* The enqueue inside the outermost handler raised: the function rejected.
C17_Witness ==
  /\ pc = "done"
  /\ controllerCall = "error"
  /\ streamState = "cancelled"
  /\ <<0, "gotoListing">> \in raised
  /\ emitted = <<FatalMsg>>
  /\ stream = <<>>

\* The awaits at which the request's browser is launched and not yet closed.
OpenSteps ==
  {"newContext", "newPage", "gotoListing", "settleListing", "scroll", "scrollWait",
   "count", "extractLinks", "close"} \cup ItemSteps

IsPrefix(s, e) == Len(s) <= Len(e) /\ SubSeq(e, 1, Len(s)) = s

\* The browser of request r is the one r launched: nobody else closed it.
OwnSession(r) ==
  /\ r.pc \in {"idle", "responded", "launch"} => (r.browser = "none" /\ r.closeCalls = 0)
  /\ r.pc \in OpenSteps => (r.browser = "open" /\ r.closeCalls = 0)

\* The stream of request r holds the events r handed to it, and only those.
OwnStream(r) ==
  /\ IsPrefix(r.stream, r.emitted)
  /\ r.streamState # "cancelled" => r.stream = r.emitted
  /\ \A k \in 1..Len(r.stream) :
       r.stream[k].type = "progress" => r.stream[k].total = Len(r.companyLinks)

StoppedWhenDue ==
  \/ /\ LinksExtracted
     /\ index = Len(companyLinks)
     /\ \A j \in 1..Len(companyLinks) : Resolved(emitted, j)
     /\ LastType(emitted) = "complete"
  \/ LastType(emitted) = "error"

\* C19 (as claimed): every accepted request eventually has its terminal event
\* on its stream and its stream closed.
C19_EventuallyTerminalAndClosed ==
  Accepted ~> (streamState = "closed" /\ TerminalPositions(stream) = {Len(stream)})

\* C19 (amended): if every primitive eventually returns or raises, every
\* accepted request eventually stops, with the stream's wrapper called; it
\* stops only after all discovered items were processed and 'complete' was
\* handed to the stream, or after a fatal 'error' was handed to it; the
\* terminal event is on the stream and the stream is closed unless the
\* consumer cancelled the stream.
C19_EventuallyStops ==
  /\ Accepted ~> (pc = "done")
  /\ [](pc = "done" /\ Accepted =>
         /\ StoppedWhenDue
         /\ controllerCall \in {"close", "error"}
         /\ streamState # "cancelled" =>
              (streamState = "closed" /\ TerminalPositions(stream) = {Len(stream)}))

C19_Witness ==
  /\ pc = "done"
  /\ Accepted
  /\ controllerCall = "close"
  /\ streamState = "closed"
  /\ index = 2 /\ Len(companyLinks) = 2
  /\ Resolved(stream, 1) /\ Resolved(stream, 2)
  /\ LastType(stream) = "complete"

\* c0 = 0, ci = the count of pass i.
CountAt(c, i) == IF i = 0 THEN 0 ELSE c[i]

\* The passes whose count did not exceed the previous one.
Stalls(c) == {i \in 1..Len(c) : CountAt(c, i) <= CountAt(c, i - 1)}

Least(S) == CHOOSE i \in S : \A j \in S : i <= j

\* min(20, the least i >= 1 with ci <= c(i-1)).
ExpectedAttempts(c) ==
  IF Stalls(c) = {} \/ Least(Stalls(c)) > maxScrollAttempts
  THEN maxScrollAttempts
  ELSE Least(Stalls(c))

\* C20: the scroll loop makes exactly min(20, least i >= 1 with ci <= c(i-1))
\* attempts: it is still running before that attempt, it has left at that
\* attempt; it scrolls at least once and stops after one attempt when the
\* first count is 0.
C20_ScrollAttemptsExact ==
  /\ pc \in {"scroll", "scrollWait", "count"} => scrollAttempts < ExpectedAttempts(countsIn)
  /\ pc = "extractLinks" =>
       /\ scrollAttempts = ExpectedAttempts(countsIn)
       /\ scrollAttempts >= 1
       /\ countsIn[1] = 0 => scrollAttempts = 1

\* The count grew for three passes and stayed the same on the fourth.
C20_Witness ==
  /\ pc = "extractLinks"
  /\ countsIn = CountsOf(3, 3)
  /\ scrollAttempts = 4
  /\ currentCompanyCount = 3 /\ previousCompanyCount = 3

\* C21: whenever a terminal event ('complete' or fatal 'error') is on the
\* stream of a request whose browser was launched, the browser was closed
\* before the event was enqueued: no terminal event while the browser is open.
C21_ClosedBeforeTerminal ==
  (browser # "none" /\ TerminalPositions(stream) # {}) => browser = "closed"

\* C22: between the end of an item's iteration and the navigation to the next
\* item the inter-item delay is executed: every step that moves on to the next
\* item is the continuation of the delay step, however the item resolved.
C22_DelayBeforeNextItem ==
  [][(index >= 1 /\ index' = index + 1) => pc = "delay"]_vars

\* C23: in every item iteration of both modes the steps occur in the order
\* navigate, settle pause, best-effort wait for the content marker, extract,
\* classify and emit; the marker wait never raises into the item's handler:
\* after it (or after its timeout and the extra pause) the extraction runs.
C23_StepOrderWithMarkerWait ==
  [][/\ (pc' = "settle" /\ pc # "settle") => pc = "goto"
     /\ (pc' = "waitForSelector" /\ pc # "waitForSelector") => pc = "settle"
     /\ (pc' = "extract" /\ pc # "extract") => pc \in {"waitForSelector", "waitMore"}
     /\ (pc' = "delay" /\ pc # "delay") => pc = "extract"
     /\ pc = "waitForSelector" =>
          (pc' \in {"waitForSelector", "extract", "waitMore"} /\ raised' = raised)]_vars

\* The positions of s that announce the navigation to item j.
NavigationPositions(s, j) ==
  {p \in 1..Len(s) : s[p].type = "progress" /\ s[p].current = j}

\* C24: item processing is sequential and without retry: the item being
\* processed is one of the discovered links, the items are taken in discovery
\* order (the index only ever moves to the next one, and a navigation only
\* starts for the next one), and each discovered URL is navigated to at most
\* once, also after it failed.
C24_SequentialNoRetry ==
  /\ [](/\ pc \in ItemSteps => index \in 1..Len(companyLinks)
        /\ \A i, j \in 1..Len(companyLinks) : companyLinks[i] = companyLinks[j] => i = j
        /\ \A j \in 1..Len(companyLinks) :
             /\ Cardinality(NavigationPositions(emitted, j)) <= 1
             /\ j > index => NavigationPositions(emitted, j) = {}
        /\ \A f \in raised : f[1] <= index)
  /\ [][/\ index' \in {index, index + 1}
         /\ (pc' = "goto" /\ pc # "goto") => index' = index + 1]_vars

\* The navigation to item 1 raised; item 2 is being navigated to, item 1 was
\* announced once.
C24_Witness ==
  /\ pc = "goto"
  /\ index = 2
  /\ <<1, "goto">> \in raised
  /\ Cardinality(NavigationPositions(emitted, 1)) = 1
  /\ Cardinality(NavigationPositions(emitted, 2)) = 1

ProgressPositions(s) == {p \in 1..Len(s) : s[p].type = "progress"}

\* The progress events of s are well-formed and ordered for the links N.
ProgressWellFormed(s) ==
  /\ \A p \in ProgressPositions(s) :
       /\ s[p].total = Len(companyLinks)
       /\ s[p].current \in 0..Len(companyLinks)
       /\ IF s[p].current = 0
          THEN p = 1 /\ DOMAIN s[p] = {"type", "total", "current"}
          ELSE s[p].currentUrl = companyLinks[s[p].current]
  /\ \A p, q \in ProgressPositions(s) : p < q => s[p].current < s[q].current
  /\ \A p \in 1..Len(s) : \A j \in 1..Len(companyLinks) :
       IsResolutionOf(s, p, j) => \E q \in 1..(p - 1) : q \in NavigationPositions(s, j)
  /\ \A p \in 1..Len(s) :
       s[p].type = "complete" => s[p].totalFound = Len(companyLinks)

\* C25: the first event of a non-empty batch is a progress event with
\* current = 0 and total = N; each item i reached gets one progress event
\* with current = i, total = N and currentUrl = the i-th link, before the
\* item's company or company_error event; current is strictly increasing and
\* total is N in every progress event and equals totalFound.
C25_ProgressWellFormed ==
  /\ ProgressWellFormed(emitted)
  /\ ProgressWellFormed(stream)
  /\ (LinksExtracted /\ Len(companyLinks) >= 1) =>
       /\ emitted # <<>> /\ emitted[1] = [type |-> "progress", total |-> Len(companyLinks), current |-> 0]
       /\ stream # <<>> => stream[1] = emitted[1]
       /\ \A j \in 1..index : Cardinality(NavigationPositions(emitted, j)) = 1

\* Two links: progress 0, progress 1, company, progress 2, company, complete.
C25_Witness ==
  /\ pc = "done"
  /\ Len(companyLinks) = 2
  /\ Len(stream) = 6
  /\ ProgressPositions(stream) = {1, 2, 4}
  /\ stream[1].current = 0 /\ stream[2].current = 1 /\ stream[4].current = 2
  /\ stream[4].currentUrl = companyLinks[2]
  /\ stream[6].type = "complete" /\ stream[6].totalFound = 2

\* ----------------------------------------------------------------- C26
\* Candidate k of the page qualifies as a description: longer than 50
\* characters once trimmed, and neither the name nor the tagline.
Qualifies(dom, k) ==
  /\ Len(TextOf(dom.fallbacks[k])) > 50
  /\ TextOf(dom.fallbacks[k]) # TextOf(dom.nameElement)
  /\ TextOf(dom.fallbacks[k]) # TextOf(dom.titleElement)

QualifyingCandidates(dom) == {k \in 1..Len(dom.fallbacks) : Qualifies(dom, k)}

\* C26: the description of the flat record is the trimmed text of the primary
\* element when that is non-empty, whatever the fallback candidates hold;
\* otherwise it is the text of the first candidate, in list order, that is
\* longer than 50 characters and differs from the name and the tagline, and
\* empty when no candidate qualifies; the record passes the name test exactly
\* when the name is non-empty, an empty description included.
C26_DescriptionFallback ==
  evalPc = "done" =>
    /\ dataOut.name = TextOf(domIn.nameElement)
    /\ dataOut.title = TextOf(domIn.titleElement)
    /\ TextOf(domIn.descriptionElement) # <<>> =>
         dataOut.description = TextOf(domIn.descriptionElement)
    /\ (TextOf(domIn.descriptionElement) = <<>> /\ QualifyingCandidates(domIn) # {}) =>
         dataOut.description = TextOf(domIn.fallbacks[Least(QualifyingCandidates(domIn))])
    /\ (TextOf(domIn.descriptionElement) = <<>> /\ QualifyingCandidates(domIn) = {}) =>
         dataOut.description = <<>>
    /\ HasName(dataOut) <=> TextOf(domIn.nameElement) # <<>>

\* The primary element is blank, the first candidate is the name, the second
\* has 50 characters once trimmed and the third qualifies.
C26_Witness ==
  /\ evalPc = "done"
  /\ domIn = FlatPage(Element(LongText), Element(<<"T">>), Element(<<" ">>),
                      <<Element(LongText), Element(PaddedFifty), Element(OtherLong)>>)
  /\ dataOut.description = OtherLong

\* ----------------------------------------------------------------- C27
\* The paragraphs of an answer region that are not blank, trimmed.
KeptParagraphs(a) ==
  LET kept == SelectSeq(a.paragraphs, LAMBDA p : Trim(p) # <<>>)
  IN  [i \in 1..Len(kept) |-> Trim(kept[i])]

\* The first n texts, each separated from the next by a blank line.
RECURSIVE BlankLineJoined(_, _)
BlankLineJoined(texts, n) ==
  IF n = 0 THEN <<>>
  ELSE IF n = 1 THEN texts[1]
       ELSE BlankLineJoined(texts, n - 1) \o <<"\n", "\n">> \o texts[n]

ExpectedAnswer(a) ==
  IF ~a.found THEN <<>>
  ELSE IF a.paragraphs = <<>> THEN Trim(a.textContent)
       ELSE BlankLineJoined(KeptParagraphs(a), Len(KeptParagraphs(a)))

\* The blocks of the page that have a non-empty question and answer.
KeptBlocks(dom) ==
  { i \in 1..Len(dom.qaElements) :
      /\ TextOf(dom.qaElements[i].questionElement) # <<>>
      /\ ExpectedAnswer(dom.qaElements[i].answerElement) # <<>> }

\* The j-th smallest member of a set of positions.
Nth(K, j) == CHOOSE i \in K : Cardinality({m \in K : m < i}) = j - 1

NamedCandidates(dom) == {k \in 1..Len(dom.nameCandidates) : TextOf(dom.nameCandidates[k]) # <<>>}

\* C27: the Q&A list of the QA record holds, in document order, exactly the
\* blocks whose question and answer are both non-empty; an answer is the
\* non-blank paragraphs, trimmed and joined by a blank line, and the text of
\* the container only when the region has no paragraph at all; the name is
\* the text of the primary heading, else of the first non-empty candidate.
C27_QAExtraction ==
  evalPc = "done" =>
    /\ Len(dataOut.qaList) = Cardinality(KeptBlocks(domIn))
    /\ \A j \in 1..Len(dataOut.qaList) :
         LET qaElement == domIn.qaElements[Nth(KeptBlocks(domIn), j)]
         IN  /\ dataOut.qaList[j].question = TextOf(qaElement.questionElement)
             /\ dataOut.qaList[j].answer = ExpectedAnswer(qaElement.answerElement)
    /\ TextOf(domIn.h1Element) # <<>> => dataOut.name = TextOf(domIn.h1Element)
    /\ (TextOf(domIn.h1Element) = <<>> /\ NamedCandidates(domIn) # {}) =>
         dataOut.name = TextOf(domIn.nameCandidates[Least(NamedCandidates(domIn))])
    /\ (TextOf(domIn.h1Element) = <<>> /\ NamedCandidates(domIn) = {}) => dataOut.name = <<>>

\* The primary heading is blank and the second candidate names the company;
\* the first block has only blank paragraphs inside a container with text,
\* the second has two paragraphs to join.
C27_Witness ==
  /\ evalPc = "done"
  /\ domIn = QAPage(Element(<<" ">>),
                    <<Element(<<" ">>), Element(<<"C">>), NoElement, NoElement, Element(<<"E">>)>>,
                    SampleBlocks)
  /\ dataOut = [name |-> <<"C">>,
                qaList |-> <<[question |-> <<"R">>, answer |-> <<"x", "\n", "\n", "y">>]>>]

\* ----------------------------------------------------------------- C28
\* The try block of POST raises before the stream is created: the body is
\* not JSON, or the url is truthy and has no includes method.
ParsingRaises(req) ==
  \/ req.body # "json"
  \/ ~IsFalsy(req.url) /\ req.url.t # "string"

\* C28: a request whose parsing raises is answered with status 500, the
\* error 'Failed to parse request' and a details string; the request ends
\* there, with no stream, no browser and no event.
C28_ParseFailureIs500 ==
  (pc # "idle" /\ ParsingRaises(request)) =>
    /\ pc = "responded"
    /\ response.status = 500
    /\ response.error = "Failed to parse request"
    /\ response.details # ""
    /\ ~response.stream
    /\ NothingAcquired

\* The url is the number 5: the substring test raised.
C28_Witness ==
  /\ pc = "responded"
  /\ request = JsonRequest(UrlNumber(5))
  /\ response = ParseErrorResponse("url.includes is not a function")
  /\ browser = "none"

\* ----------------------------------------------------------------- C29
\* C29: once the final extraction pass has returned, the link list is what
\* that pass extracted from the page it saw, the zero-links 'error' event is
\* produced exactly when that list is empty, and the total of every progress
\* event and the totalFound of the 'complete' event are the length of that
\* list, whatever the scroll loop counted last.
C29_FinalPassDecides ==
  LinksExtracted =>
    /\ companyLinks \in {ExtractCompanyLinks(hrefs) : hrefs \in LiveListingPages}
    /\ Has(emitted, NoLinksMsg) <=> companyLinks = <<>>
    /\ companyLinks # <<>> => emitted[1] = InitialMsg(companyLinks)
    /\ \A k \in 1..Len(emitted) :
         /\ emitted[k].type = "progress" => emitted[k].total = Len(companyLinks)
         /\ emitted[k].type = "complete" => emitted[k].totalFound = Len(companyLinks)

\* The loop counted two links and the final pass found none.
C29_Witness ==
  /\ pc = "done"
  /\ currentCompanyCount = 2
  /\ companyLinks = <<>>
  /\ stream = <<NoLinksMsg>>

\* The loop counted no link and the final pass found two.
C29_WitnessGrown ==
  /\ pc = "done"
  /\ currentCompanyCount = 0
  /\ scrollAttempts = 1
  /\ Len(companyLinks) = 2
  /\ LastType(stream) = "complete"
  /\ stream[Len(stream)].totalFound = 2

\* ----------------------------------------------------------------- C30
\* C30 (as claimed): every accepted request ends with controller.close()
\* called, after the terminal event, which is the last event of the stream.
C30_ClosedExactlyOnce ==
  (pc = "done" /\ Accepted) =>
    /\ controllerCall = "close"
    /\ TerminalPositions(stream) = {Len(stream)}

\* C30 (amended): controller.close() is called only when the scrape function
\* has returned, and then the terminal event is the last event of the stream
\* and every event the producer enqueued was accepted; after the call the
\* producer enqueues nothing and makes no further call, so the call is made at
\* most once; an accepted request ends with the call made unless the consumer
\* cancelled the stream, in which case the function rejected and
\* controller.error() was called in its place.
C30_CloseDiscipline ==
  /\ [](controllerCall = "close" =>
          /\ pc = "done"
          /\ streamState = "closed"
          /\ emitted = stream
          /\ TerminalPositions(stream) = {Len(stream)})
  /\ []((pc = "done" /\ Accepted) =>
          /\ controllerCall \in {"close", "error"}
          /\ controllerCall = "error" <=> streamState = "cancelled")
  /\ [][(controllerCall' = "close" /\ controllerCall # "close") =>
          /\ pc = "returned"
          /\ stream' = stream
          /\ TerminalPositions(stream) = {Len(stream)}]_vars
  /\ [][controllerCall = "close" =>
          /\ controllerCall' = "close"
          /\ pc' = pc
          /\ stream' = stream
          /\ emitted' = emitted]_vars

\* The launch raised, the fatal 'error' was enqueued, the function returned
\* and the stream was closed.
C30_Witness ==
  /\ pc = "done"
  /\ controllerCall = "close"
  /\ streamState = "closed"
  /\ raised = {<<0, "launch">>}
  /\ stream = <<FatalMsg>>

\* ----------------------------------------------------------------- C31
\* The data of the company events of s, in the order of s.
CompanyDataOf(s) ==
  LET events == SelectSeq(s, IsCompanyEvent)
  IN  [i \in 1..Len(events) |-> events[i].data]

\* The read loop has seen the end of the stream and the handler returned.
StreamEnded == clientPc = "returned" /\ sent # <<>>

\* C31: however the body is cut into read chunks, once the stream has ended
\* the page's company list is the data of all company events in emission
\* order, and the loading flag is cleared.
C31_ClientListComplete ==
  StreamEnded =>
    /\ clientCompanies = CompanyDataOf(sent)
    /\ isLoading = FALSE

\* C31, the list alone.
C31_ListComplete == StreamEnded => clientCompanies = CompanyDataOf(sent)

\* C31, the loading flag alone.
C31_LoadingCleared == StreamEnded => isLoading = FALSE

\* C31 restricted to reads that all end at the end of a line: the list is
\* complete and the loading flag is cleared.  Whatever the cuts, the list is
\* a subsequence of the company events.
C31_HoldsOnWholeLines ==
  /\ (StreamEnded /\ ~midLine) =>
       /\ clientCompanies = CompanyDataOf(sent)
       /\ isLoading = FALSE
  /\ IsSubsequenceOf(clientCompanies, CompanyDataOf(sent))

\* Two companies sent, every read ended at the end of a line, both shown.
C31_WholeLinesWitness ==
  /\ StreamEnded
  /\ ~midLine
  /\ clientCompanies = <<AcmeCompany, BetaCompany>>
  /\ isLoading = FALSE
====
